---- MODULE Spec2Model ----
(***************************************************************************)
(* A model of the two teaching examples of the repository:                 *)
(*   - package context (context_package_example.go): the request-scoped    *)
(*     mainContext stored under one private key of a context.Context;      *)
(*   - package examplePackage (the HTTP controller): the settings refresh, *)
(*     the create-user handler and validateCreateUserRequest.              *)
(* Each part has its own specification: SpecCtx, SpecSeq, SpecConc and     *)
(* SpecVal.  The variables of the other parts stay at their initial value. *)
(***************************************************************************)
EXTENDS Integers, Sequences, FiniteSets, TLC

VARIABLES
    ctxs,     \* the heap of contexts built by context.WithValue: node i is ctxs[i]
    made,     \* history, parallel to ctxs: the call that built each node
    ret,      \* the last read of the context package: [op, ctx, val]
    vcur,     \* the createUserRequest handed to validateCreateUserRequest
    vres,     \* what validateCreateUserRequest returned for vcur
    settingsData, \* Controller.settingsData, shared by every handler
    pc,       \* where main (process 0) and each handler goroutine stand
    loc,      \* the local variables of each process
    sent,     \* the responses each process sent for its current request
    trace,    \* history: the steps of handleCreateUser each request took
    lastOK,   \* history: what the latest successful settingsClient.Get fetched
    started   \* history: the requests served so far

ctxVars == <<ctxs, made, ret>>
valVars == <<vcur, vres>>
ctlVars == <<settingsData, pc, loc, sent, trace, lastOK, started>>
vars == <<ctxs, made, ret, vcur, vres, settingsData, pc, loc, sent, trace,
          lastOK, started>>

(***************************************************************************)
(* Part 1: package context                                                 *)
(***************************************************************************)

\* the most context nodes a behaviour builds
MaxCtx == 3

\* context.Background(): the chain on which nothing was bound
Background == 0

\* mainContextKey{} and the key of some other package; Go compares keys by
\* dynamic type and value, so two mainContextKey{} are equal and no key of
\* another type equals it
mainContextKey == "mainContextKey"
otherKey == "otherKey"

\* type mainContext struct { RequestID string; IPAddress string }; the values
\* the middleware binds, and the request IDs a handler sets
mainContext == {[RequestID |-> "abc", IPAddress |-> "1.2.3.4"],
                [RequestID |-> "", IPAddress |-> "5.6.7.8"]}
RequestIDs == {"", "new-id"}

\* mainContext{}: every field at its zero value
ZeroMainContext == [RequestID |-> "", IPAddress |-> ""]

\* interface{} values: the dynamic type travels with the value
NilValue == [type |-> "nil"]
BoxMainContext(data) == [type |-> "mainContext", v |-> data]
BoxString(s) == [type |-> "string", v |-> s]

\* context.WithValue(parent, key, val) in a mutating variant: when the parent
\* already binds key, its node is overwritten in place
WithValueInPlace(heap, parent, key, val) ==
    IF parent # Background /\ heap[parent].key = key
    THEN Append([heap EXCEPT ![parent].val = val],
                [parent |-> parent, key |-> key, val |-> val])
    ELSE Append(heap, [parent |-> parent, key |-> key, val |-> val])

\* context.WithValue(parent, key, val): a new node in front of parent; the
\* parent and every other node are left as they are
WithValue(heap, parent, key, val) ==
    Append(heap, [parent |-> parent, key |-> key, val |-> val])

\* a lookup that returns the binding nearest to the root instead of the
\* nearest to the handle
RECURSIVE ValueOldest(_, _, _)
ValueOldest(heap, c, key) ==
    IF c = Background THEN NilValue
    ELSE LET up == ValueOldest(heap, heap[c].parent, key)
         IN  IF up # NilValue THEN up
             ELSE IF heap[c].key = key THEN heap[c].val ELSE NilValue

\* ctx.Value(key): the nearest binding of key walking towards the root, nil
\* when there is none
RECURSIVE Value(_, _, _)
Value(heap, c, key) ==
    IF c = Background THEN NilValue
    ELSE IF heap[c].key = key THEN heap[c].val
    ELSE Value(heap, heap[c].parent, key)

\* a read that answers a missing scope with a placeholder instead of the
\* zero value
GetMainContextPlaceholder(heap, c) ==
    LET x == Value(heap, c, mainContextKey)
        ok == x.type = "mainContext"
    IN  IF ok THEN x.v ELSE [RequestID |-> "unknown", IPAddress |-> ""]

\* GetMainContext: the type assertion x.(mainContext) with the comma-ok form
GetMainContext(heap, c) ==
    LET x == Value(heap, c, mainContextKey)
        ok == x.type = "mainContext"
    IN  IF ok THEN x.v ELSE ZeroMainContext

\* GetRequestID
GetRequestID(heap, c) == GetMainContext(heap, c).RequestID

\* a setter that binds a fresh scope holding only the request ID
SetRequestIDFresh(heap, c, requestID) ==
    LET data == [ZeroMainContext EXCEPT !.RequestID = requestID]
    IN  WithValue(heap, c, mainContextKey, BoxMainContext(data))

\* SetMainContext: returns the heap with the new node; the handle is its index
SetMainContext(heap, c, data) ==
    WithValue(heap, c, mainContextKey, BoxMainContext(data))

\* SetRequestID: GetMainContext, change the field of the copy, bind again
SetRequestID(heap, c, requestID) ==
    LET data == [GetMainContext(heap, c) EXCEPT !.RequestID = requestID]
    IN  WithValue(heap, c, mainContextKey, BoxMainContext(data))

Handles == 0..Len(ctxs)

NoRead == [op |-> "none", ctx |-> Background, val |-> NilValue]

CtxStart ==
    /\ ctxs = <<>>
    /\ made = <<>>
    /\ ret = NoRead

DoSetMainContext ==
    \E c \in Handles, data \in mainContext :
        /\ Len(ctxs) < MaxCtx
        /\ ctxs' = SetMainContext(ctxs, c, data)
        /\ made' = Append(made, [op |-> "SetMainContext", ctx |-> c, arg |-> data])
        /\ UNCHANGED <<ret, valVars, ctlVars>>

DoSetRequestID ==
    \E c \in Handles, requestID \in RequestIDs :
        /\ Len(ctxs) < MaxCtx
        /\ ctxs' = SetRequestID(ctxs, c, requestID)
        /\ made' = Append(made, [op |-> "SetRequestID", ctx |-> c, arg |-> requestID])
        /\ UNCHANGED <<ret, valVars, ctlVars>>

\* another package binds its own key on the chain
DoWithValueOtherKey ==
    \E c \in Handles :
        /\ Len(ctxs) < MaxCtx
        /\ ctxs' = WithValue(ctxs, c, otherKey, BoxString("x"))
        /\ made' = Append(made, [op |-> "WithValue", ctx |-> c, arg |-> otherKey])
        /\ UNCHANGED <<ret, valVars, ctlVars>>

\* code inside the package (the key is not exported) binds a value that is
\* not a mainContext under mainContextKey{}: the case the failed type
\* assertion of GetMainContext is written for
DoWithValueOtherShape ==
    \E c \in Handles :
        /\ Len(ctxs) < MaxCtx
        /\ ctxs' = WithValue(ctxs, c, mainContextKey, BoxString("x"))
        /\ made' = Append(made, [op |-> "WithValue", ctx |-> c, arg |-> mainContextKey])
        /\ UNCHANGED <<ret, valVars, ctlVars>>

DoGetMainContext ==
    \E c \in Handles :
        /\ ret' = [op |-> "GetMainContext", ctx |-> c, val |-> GetMainContext(ctxs, c)]
        /\ UNCHANGED <<ctxs, made, valVars, ctlVars>>

DoGetRequestID ==
    \E c \in Handles :
        /\ ret' = [op |-> "GetRequestID", ctx |-> c, val |-> GetRequestID(ctxs, c)]
        /\ UNCHANGED <<ctxs, made, valVars, ctlVars>>

NextCtx ==
    \/ DoSetMainContext
    \/ DoSetRequestID
    \/ DoWithValueOtherKey
    \/ DoWithValueOtherShape
    \/ DoGetMainContext
    \/ DoGetRequestID

(***************************************************************************)
(* Part 2: errors and validateCreateUserRequest                            *)
(***************************************************************************)

\* a nil error
NoError == [nil |-> TRUE]

\* errors.New(text): an error that wraps nothing
NewError(text) == [msg |-> text, wraps |-> <<>>]

\* the sentinel errors of the package
errBadRequest == NewError("input error")
errInternal == NewError("internal error")

\* fmt.Errorf(prefix + " %s. %v", err, sentinel): the sentinel is formatted
\* into the text and not wrapped
ErrorfNoWrap(prefix, err, sentinel) ==
    [msg |-> prefix \o " " \o err.msg \o ". " \o sentinel.msg, wraps |-> <<>>]

\* fmt.Errorf(prefix + " %s. %w", err, sentinel): err is formatted into the
\* text, only the %w operand is wrapped
Errorf(prefix, err, sentinel) ==
    [msg |-> prefix \o " " \o err.msg \o ". " \o sentinel.msg, wraps |-> <<sentinel>>]

\* errors.Is(err, target): err or an error on its Unwrap chain is target
RECURSIVE Is(_, _)
Is(err, target) ==
    IF err = NoError THEN FALSE
    ELSE IF err = target THEN TRUE
    ELSE IF err.wraps = <<>> THEN FALSE
    ELSE Is(err.wraps[1], target)

\* the bytes of the UTF-8 encoding of one code point
UTF8Width(cp) ==
    IF cp < 128 THEN 1 ELSE IF cp < 2048 THEN 2 ELSE IF cp < 65536 THEN 3 ELSE 4

\* len(s) of a Go string, given as the sequence of its code points: the
\* number of bytes, not of characters
RECURSIVE GoLen(_)
GoLen(s) == IF s = <<>> THEN 0 ELSE UTF8Width(Head(s)) + GoLen(Tail(s))

\* strings.Join(elems, sep)
RECURSIVE Join(_, _)
Join(elems, sep) ==
    IF elems = <<>> THEN ""
    ELSE IF Len(elems) = 1 THEN elems[1]
    ELSE elems[1] \o sep \o Join(Tail(elems), sep)

\* the messages validateCreateUserRequest appends, in the order of its checks
ValidationMessages(cur) ==
    (IF cur.FullName = "" THEN <<"full name is required">> ELSE <<>>)
    \o (IF cur.Address = "" THEN <<"address is required">> ELSE <<>>)
    \o (IF cur.City = "" THEN <<"city is required">> ELSE <<>>)
    \o (IF cur.State = <<>> \/ GoLen(cur.State) # 2
        THEN <<"state is required and must be 2 characters">> ELSE <<>>)
    \o (IF cur.ZipCode = 0 THEN <<"zip code is required">> ELSE <<>>)

\* validateCreateUserRequest
validateCreateUserRequest(cur) ==
    LET errs == ValidationMessages(cur)
    IN  IF Len(errs) > 0 THEN NewError(Join(errs, "; ")) ELSE NoError

\* the State strings tried, as code points: "", "N", "NY", "NYC", U+00E9
\* (one character, two bytes), U+00D1 "Y" (two characters, three bytes)
States == {<<>>, <<78>>, <<78, 89>>, <<78, 89, 67>>, <<233>>, <<209, 89>>}

\* type createUserRequest struct
createUserRequest ==
    [FullName : {"", "Ann"}, Address : {"", "1 Main St"}, City : {"", "Troy"},
     State : States, ZipCode : {-1, 0, 12180}]

NotValidated == [pending |-> TRUE]

ValStart ==
    /\ vcur = [FullName |-> "", Address |-> "", City |-> "", State |-> <<>>,
               ZipCode |-> 0]
    /\ vres = NotValidated

DoValidate ==
    /\ vres = NotValidated
    /\ vres' = validateCreateUserRequest(vcur)
    /\ UNCHANGED <<vcur, ctxVars, ctlVars>>

(***************************************************************************)
(* Part 3: the controller                                                  *)
(***************************************************************************)

\* the handler goroutines that can run at once, and the requests served
NumHandlers == 2
MaxRequests == 2

Main == 0
HandlerProcs == 1..NumHandlers
Procs == {Main} \cup HandlerProcs

\* the http status codes the handlers use
StatusOK == 200
StatusCreated == 201
StatusBadRequest == 400
StatusInternalServerError == 500
StatusNotImplemented == 501

\* type userSettingsData struct { Enabled bool; APIKey string }
SettingsFields == {"Enabled", "APIKey"}
ZeroSettings == [Enabled |-> FALSE, APIKey |-> ""]

\* what settingsClient.Get can fetch
FetchedSettings == {[Enabled |-> TRUE, APIKey |-> "k1"],
                    [Enabled |-> FALSE, APIKey |-> "k2"]}

\* request bodies: one json.Decode rejects, and those it decodes
ValidUser == [FullName |-> "Ann", Address |-> "1 Main St", City |-> "Troy",
              State |-> <<78, 89>>, ZipCode |-> 12180]
ZeroUser == [FullName |-> "", Address |-> "", City |-> "", State |-> <<>>,
             ZipCode |-> 0]
Bodies == {[json |-> FALSE, value |-> ZeroUser],
           [json |-> TRUE, value |-> ValidUser],
           [json |-> TRUE, value |-> [ValidUser EXCEPT !.State = <<78>>, !.ZipCode = 0]]}

\* the IDs DB.InsertUser hands out
UserIDs == {"u1", "u2"}

\* response.Error(nil) and the body of a response
Response(status, body) == [status |-> status, body |-> body]

ZeroLocals ==
    [kind |-> "none", usd |-> ZeroSettings, pending |-> {}, err |-> NoError,
     snap |-> ZeroSettings, body |-> [json |-> FALSE, value |-> ZeroUser],
     cur |-> ZeroUser, resp |-> [ID |-> ""]]

CtlStart ==
    /\ settingsData = ZeroSettings
    /\ pc = [p \in Procs |-> IF p = Main THEN "main" ELSE "idle"]
    /\ loc = [p \in Procs |-> ZeroLocals]
    /\ sent = [p \in Procs |-> <<>>]
    /\ trace = [p \in Procs |-> <<>>]
    /\ lastOK = ZeroSettings
    /\ started = 0

\* no handler is between the start of a request and its response
Quiet == \A q \in HandlerProcs : pc[q] \in {"idle", "done"}

\* main: c := &Controller{...}; c.InitializeUserSettings()
MainStart ==
    /\ pc[Main] = "main"
    /\ pc' = [pc EXCEPT ![Main] = "i_get"]
    /\ loc' = [loc EXCEPT ![Main].kind = "main"]
    /\ UNCHANGED <<settingsData, sent, trace, lastOK, started, ctxVars, valVars>>

\* InitializeUserSettings that stores usd whether or not Get succeeded
InitGetIgnoreError(p) ==
    /\ pc[p] = "i_get"
    /\ \/ /\ loc' = [loc EXCEPT ![p].usd = ZeroSettings,
                                ![p].pending = SettingsFields]
          /\ pc' = [pc EXCEPT ![p] = "i_store"]
          /\ UNCHANGED lastOK
       \/ \E v \in FetchedSettings :
            /\ loc' = [loc EXCEPT ![p].usd = v, ![p].pending = SettingsFields]
            /\ pc' = [pc EXCEPT ![p] = "i_store"]
            /\ lastOK' = v
    /\ UNCHANGED <<settingsData, sent, trace, started, ctxVars, valVars>>

\* InitializeUserSettings, first half: usd := userSettingsData{};
\* c.settingsClient.Get(&usd) fails, or fills usd
InitGet(p) ==
    /\ pc[p] = "i_get"
    /\ \/ /\ loc' = [loc EXCEPT ![p].err =
                        Errorf("failed to get user settings.",
                               NewError("unavailable"), errInternal)]
          /\ pc' = [pc EXCEPT ![p] = "i_ret"]
          /\ UNCHANGED lastOK
       \/ \E v \in FetchedSettings :
            /\ loc' = [loc EXCEPT ![p].usd = v, ![p].pending = SettingsFields]
            /\ pc' = [pc EXCEPT ![p] = "i_store"]
            /\ lastOK' = v
    /\ UNCHANGED <<settingsData, sent, trace, started, ctxVars, valVars>>

\* the store of one field of c.settingsData = usd
StoreField(p, f) ==
    /\ settingsData' = [settingsData EXCEPT ![f] = loc[p].usd[f]]
    /\ loc' = [loc EXCEPT ![p].pending = @ \ {f}]
    /\ pc' = [pc EXCEPT ![p] = IF loc[p].pending = {f} THEN "i_ret" ELSE "i_store"]
    /\ UNCHANGED <<sent, trace, lastOK, started, ctxVars, valVars>>

\* the store under a lock that readers and writers of settingsData take
InitStoreLocked(p) ==
    /\ pc[p] = "i_store"
    /\ \A q \in Procs \ {p} :
          ~(pc[q] \in {"i_store", "u_read"} /\ loc[q].pending # SettingsFields)
    /\ \E f \in loc[p].pending : StoreField(p, f)

\* InitializeUserSettings, second half: c.settingsData = usd.  Nothing orders
\* this store with the other goroutines, and a struct of two fields is not
\* stored in one indivisible step: the fields are stored one at a time, in
\* either order
InitStore(p) ==
    /\ pc[p] = "i_store"
    /\ \E f \in loc[p].pending : StoreField(p, f)

\* main: if err != nil { panic(err) }, else the router serves
MainAfterInit ==
    /\ pc[Main] = "i_ret"
    /\ pc' = [pc EXCEPT ![Main] = IF loc[Main].err # NoError THEN "panicked"
                                  ELSE "serving"]
    /\ UNCHANGED <<settingsData, loc, sent, trace, lastOK, started, ctxVars, valVars>>

\* a request arrives at POST /v1/update-settings
UpdateStart(p) ==
    /\ pc[Main] = "serving"
    /\ pc[p] \in {"idle", "done"}
    /\ started < MaxRequests
    /\ started' = started + 1
    /\ pc' = [pc EXCEPT ![p] = "i_get"]
    /\ loc' = [loc EXCEPT ![p] = [ZeroLocals EXCEPT !.kind = "update"]]
    /\ sent' = [sent EXCEPT ![p] = <<>>]
    /\ trace' = [trace EXCEPT ![p] = <<>>]
    /\ UNCHANGED <<settingsData, lastOK, ctxVars, valVars>>

\* UpdateUserSettingsHandler after c.InitializeUserSettings() returned
UpdateAfterInit(p) ==
    /\ p # Main
    /\ pc[p] = "i_ret"
    /\ IF loc[p].err # NoError
       THEN /\ sent' = [sent EXCEPT ![p] =
                          Append(@, Response(StatusInternalServerError, NoError))]
            /\ pc' = [pc EXCEPT ![p] = "done"]
            /\ UNCHANGED loc
       ELSE /\ pc' = [pc EXCEPT ![p] = "u_read"]
            /\ loc' = [loc EXCEPT ![p].pending = SettingsFields]
            /\ UNCHANGED sent
    /\ UNCHANGED <<settingsData, trace, lastOK, started, ctxVars, valVars>>

\* UpdateUserSettingsHandler: the copy of c.SettingsData taken for the
\* response, one field at a time, in either order
UpdateRead(p) ==
    /\ pc[p] = "u_read"
    /\ \E f \in loc[p].pending :
          /\ loc' = [loc EXCEPT ![p].snap[f] = settingsData[f],
                                ![p].pending = @ \ {f}]
          /\ pc' = [pc EXCEPT ![p] = IF loc[p].pending = {f} THEN "u_respond"
                                     ELSE "u_read"]
    /\ UNCHANGED <<settingsData, sent, trace, lastOK, started, ctxVars, valVars>>

\* UpdateUserSettingsHandler: n.Respond(rw, http.StatusOK, ...)
UpdateRespond(p) ==
    /\ pc[p] = "u_respond"
    /\ sent' = [sent EXCEPT ![p] = Append(@, Response(StatusOK, loc[p].snap))]
    /\ pc' = [pc EXCEPT ![p] = "done"]
    /\ UNCHANGED <<settingsData, loc, trace, lastOK, started, ctxVars, valVars>>

\* the errors DB.InsertUser can return
DBErrors == {NewError("db down"), errBadRequest}

\* a request arrives at POST /v1/user
CreateStart(p) ==
    /\ pc[Main] = "serving"
    /\ pc[p] \in {"idle", "done"}
    /\ started < MaxRequests
    /\ started' = started + 1
    /\ \E body \in Bodies :
          loc' = [loc EXCEPT ![p] = [ZeroLocals EXCEPT !.kind = "create",
                                                       !.body = body]]
    /\ pc' = [pc EXCEPT ![p] = "c_enabled"]
    /\ sent' = [sent EXCEPT ![p] = <<>>]
    /\ trace' = [trace EXCEPT ![p] = <<>>]
    /\ UNCHANGED <<settingsData, lastOK, ctxVars, valVars>>

\* CreateUserHandler: if !c.SettingsData.Enabled { respond 501; return }
CreateCheckEnabled(p) ==
    /\ pc[p] = "c_enabled"
    /\ IF ~settingsData.Enabled
       THEN /\ sent' = [sent EXCEPT ![p] =
                          Append(@, Response(StatusNotImplemented, NoError))]
            /\ trace' = [trace EXCEPT ![p] = Append(@, "disabled")]
            /\ pc' = [pc EXCEPT ![p] = "done"]
       ELSE /\ trace' = [trace EXCEPT ![p] = Append(@, "enabled")]
            /\ pc' = [pc EXCEPT ![p] = "h_decode"]
            /\ UNCHANGED sent
    /\ UNCHANGED <<settingsData, loc, lastOK, started, ctxVars, valVars>>

\* handleCreateUser: json.NewDecoder(req.Body).Decode(&cur)
HandleDecode(p) ==
    /\ pc[p] = "h_decode"
    /\ IF ~loc[p].body.json
       THEN /\ loc' = [loc EXCEPT ![p].err =
                         Errorf("failed to decode.", NewError("invalid character"),
                                errBadRequest)]
            /\ trace' = [trace EXCEPT ![p] = Append(@, "decode:fail")]
            /\ pc' = [pc EXCEPT ![p] = "c_ret"]
       ELSE /\ loc' = [loc EXCEPT ![p].cur = loc[p].body.value]
            /\ trace' = [trace EXCEPT ![p] = Append(@, "decode:ok")]
            /\ pc' = [pc EXCEPT ![p] = "h_validate"]
    /\ UNCHANGED <<settingsData, sent, lastOK, started, ctxVars, valVars>>

\* handleCreateUser that logs the validation error and carries on
HandleValidateCarryOn(p) ==
    /\ pc[p] = "h_validate"
    /\ trace' = [trace EXCEPT ![p] =
                   Append(@, IF validateCreateUserRequest(loc[p].cur) # NoError
                             THEN "validate:fail" ELSE "validate:ok")]
    /\ pc' = [pc EXCEPT ![p] = "h_insert"]
    /\ UNCHANGED <<settingsData, loc, sent, lastOK, started, ctxVars, valVars>>

\* handleCreateUser: validateCreateUserRequest(cur)
HandleValidate(p) ==
    /\ pc[p] = "h_validate"
    /\ LET err == validateCreateUserRequest(loc[p].cur)
       IN  IF err # NoError
           THEN /\ loc' = [loc EXCEPT ![p].err =
                             Errorf("failed to validate create user request.", err,
                                    errBadRequest)]
                /\ trace' = [trace EXCEPT ![p] = Append(@, "validate:fail")]
                /\ pc' = [pc EXCEPT ![p] = "c_ret"]
           ELSE /\ trace' = [trace EXCEPT ![p] = Append(@, "validate:ok")]
                /\ pc' = [pc EXCEPT ![p] = "h_insert"]
                /\ UNCHANGED loc
    /\ UNCHANGED <<settingsData, sent, lastOK, started, ctxVars, valVars>>

\* handleCreateUser: c.DB.InsertUser(ctx, cur) fails, or returns the new ID
HandleInsert(p) ==
    /\ pc[p] = "h_insert"
    /\ \/ \E err \in DBErrors :
            /\ loc' = [loc EXCEPT ![p].err =
                         Errorf("failed to insert user.", err, errInternal)]
            /\ trace' = [trace EXCEPT ![p] = Append(@, "insert:fail")]
       \/ \E userID \in UserIDs :
            /\ loc' = [loc EXCEPT ![p].resp.ID = userID]
            /\ trace' = [trace EXCEPT ![p] = Append(@, "insert:ok")]
    /\ pc' = [pc EXCEPT ![p] = "c_ret"]
    /\ UNCHANGED <<settingsData, sent, lastOK, started, ctxVars, valVars>>

\* the responses of CreateUserHandler without the return of the error branch
RespondNoReturn(err, resp) ==
    (IF err = NoError THEN <<>>
     ELSE IF Is(err, errBadRequest) THEN <<Response(StatusBadRequest, err)>>
     ELSE IF Is(err, errInternal)
          THEN <<Response(StatusInternalServerError, NoError)>>
     ELSE <<>>)
    \o <<Response(StatusCreated, resp)>>

\* the responses CreateUserHandler sends once handleCreateUser returned
\* (resp, err): the error branch has no final else
Respond(err, resp) ==
    IF err # NoError
    THEN IF Is(err, errBadRequest) THEN <<Response(StatusBadRequest, err)>>
         ELSE IF Is(err, errInternal)
              THEN <<Response(StatusInternalServerError, NoError)>>
         ELSE <<>>
    ELSE <<Response(StatusCreated, resp)>>

\* CreateUserHandler after handleCreateUser returned
CreateRespond(p) ==
    /\ pc[p] = "c_ret"
    /\ sent' = [sent EXCEPT ![p] = @ \o Respond(loc[p].err, loc[p].resp)]
    /\ pc' = [pc EXCEPT ![p] = "done"]
    /\ UNCHANGED <<settingsData, loc, trace, lastOK, started, ctxVars, valVars>>

\* the requests of a server that handles one request at a time
UpdateStartSeq(p) == Quiet /\ UpdateStart(p)
CreateStartSeq(p) == Quiet /\ CreateStart(p)

(***************************************************************************)
(* Specifications                                                          *)
(***************************************************************************)

InitCtx == CtxStart /\ ValStart /\ CtlStart

SpecCtx == InitCtx /\ [][NextCtx]_vars

InitVal ==
    /\ CtxStart
    /\ CtlStart
    /\ vcur \in createUserRequest
    /\ vres = NotValidated

NextVal == DoValidate

SpecVal == InitVal /\ [][NextVal]_vars

InitCtl == CtxStart /\ ValStart /\ CtlStart

\* handlers run one request at a time
NextSeq ==
    \/ MainStart
    \/ MainAfterInit
    \/ \E p \in Procs : InitGet(p)
    \/ \E p \in Procs : InitStore(p)
    \/ \E p \in HandlerProcs : UpdateStartSeq(p)
    \/ \E p \in HandlerProcs : UpdateAfterInit(p)
    \/ \E p \in HandlerProcs : UpdateRead(p)
    \/ \E p \in HandlerProcs : UpdateRespond(p)
    \/ \E p \in HandlerProcs : CreateStartSeq(p)
    \/ \E p \in HandlerProcs : CreateCheckEnabled(p)
    \/ \E p \in HandlerProcs : HandleDecode(p)
    \/ \E p \in HandlerProcs : HandleValidate(p)
    \/ \E p \in HandlerProcs : HandleInsert(p)
    \/ \E p \in HandlerProcs : CreateRespond(p)

SpecSeq == InitCtl /\ [][NextSeq]_vars

\* net/http runs every request in its own goroutine
NextConc ==
    \/ MainStart
    \/ MainAfterInit
    \/ \E p \in Procs : InitGet(p)
    \/ \E p \in Procs : InitStore(p)
    \/ \E p \in HandlerProcs : UpdateStart(p)
    \/ \E p \in HandlerProcs : UpdateAfterInit(p)
    \/ \E p \in HandlerProcs : UpdateRead(p)
    \/ \E p \in HandlerProcs : UpdateRespond(p)
    \/ \E p \in HandlerProcs : CreateStart(p)
    \/ \E p \in HandlerProcs : CreateCheckEnabled(p)
    \/ \E p \in HandlerProcs : HandleDecode(p)
    \/ \E p \in HandlerProcs : HandleValidate(p)
    \/ \E p \in HandlerProcs : HandleInsert(p)
    \/ \E p \in HandlerProcs : CreateRespond(p)

SpecConc == InitCtl /\ [][NextConc]_vars

(***************************************************************************)
(* Properties of package context, checked under SpecCtx                    *)
(***************************************************************************)

Nodes == 1..Len(ctxs)
IsSet(i) == made[i].op \in {"SetMainContext", "SetRequestID"}

\* C1: reading a chain returned by SetMainContext(ctx, s) gives s, whatever
\* ctx held before: the most recent bind is the one read back.
C1_ReadBackLastBind ==
    \A i \in Nodes :
        made[i].op = "SetMainContext" => GetMainContext(ctxs, i) = made[i].arg

\* a scope was bound over a chain that already held a different scope, and
\* the new chain was read
C1_Witness ==
    \E i \in Nodes :
        /\ made[i].op = "SetMainContext"
        /\ made[i].ctx # Background
        /\ IsSet(made[i].ctx)
        /\ GetMainContext(ctxs, made[i].ctx) # made[i].arg
        /\ ret = [op |-> "GetMainContext", ctx |-> i, val |-> made[i].arg]

\* from the history alone: no scope is bound on chain c, or the nearest value
\* in its slot has another shape
RECURSIVE NoScopeOn(_)
NoScopeOn(c) ==
    IF c = Background THEN TRUE
    ELSE IF IsSet(c) THEN FALSE
    ELSE IF made[c].arg = mainContextKey THEN TRUE
    ELSE NoScopeOn(made[c].ctx)

\* C2: on a chain with no scope bound, or whose slot holds a value of another
\* shape, GetMainContext returns the zero-valued scope and GetRequestID
\* returns ""; every read returns a value of its result type.
C2_MissingScopeReadsZero ==
    /\ \A c \in Handles :
          NoScopeOn(c) => /\ GetMainContext(ctxs, c) = ZeroMainContext
                          /\ GetRequestID(ctxs, c) = ""
    /\ ret.op = "GetMainContext" =>
          /\ DOMAIN ret.val = {"RequestID", "IPAddress"}
          /\ NoScopeOn(ret.ctx) => ret.val = ZeroMainContext
    /\ ret.op = "GetRequestID" =>
          /\ ret.val \in STRING
          /\ NoScopeOn(ret.ctx) => ret.val = ""

\* GetMainContext ran on a chain whose slot holds a value of another shape,
\* bound over a chain that holds a scope
C2_Witness ==
    /\ ret.op = "GetMainContext"
    /\ ret.ctx # Background
    /\ made[ret.ctx].op = "WithValue"
    /\ made[ret.ctx].arg = mainContextKey
    /\ made[ret.ctx].ctx # Background
    /\ IsSet(made[ret.ctx].ctx)
    /\ ret.val = ZeroMainContext

\* the node a run of successive SetRequestID calls started from
RECURSIVE RunStart(_)
RunStart(i) ==
    IF i # Background /\ made[i].op = "SetRequestID" THEN RunStart(made[i].ctx)
    ELSE i

\* C3: SetRequestID(ctx, X) yields the scope of ctx with only RequestID
\* replaced by X; after SetMainContext(ctx, s) and any number of successive
\* SetRequestID calls the IPAddress is still that of s.
C3_SetRequestIDNoClobber ==
    \A i \in Nodes :
        made[i].op = "SetRequestID" =>
            LET before == GetMainContext(ctxs, made[i].ctx)
                after == GetMainContext(ctxs, i)
                first == RunStart(i)
            IN  /\ after = [before EXCEPT !.RequestID = made[i].arg]
                /\ (first # Background /\ made[first].op = "SetMainContext") =>
                       after = [made[first].arg EXCEPT !.RequestID = made[i].arg]

\* two successive SetRequestID calls on SetMainContext(ctx, {"abc", "1.2.3.4"})
C3_Witness ==
    \E i \in Nodes :
        /\ made[i].op = "SetRequestID"
        /\ made[i].arg = "new-id"
        /\ made[i].ctx # Background
        /\ made[made[i].ctx].op = "SetRequestID"
        /\ made[made[i].ctx].arg = ""
        /\ RunStart(i) # Background
        /\ made[RunStart(i)].op = "SetMainContext"
        /\ GetMainContext(ctxs, i) = [RequestID |-> "new-id", IPAddress |-> "1.2.3.4"]

\* C4: a set returns a new chain and leaves every chain that existed before
\* the call as it was: each of them reads the same after the call as before.
C4_ExistingChainsUnmodified ==
    [][\A c \in Handles :
          /\ GetMainContext(ctxs', c) = GetMainContext(ctxs, c)
          /\ GetRequestID(ctxs', c) = GetRequestID(ctxs, c)]_vars

\* a parent that holds a scope and two chains derived from it, each with a
\* scope of its own
C4_Witness ==
    \E i, j, k \in Nodes :
        /\ IsSet(i) /\ IsSet(j) /\ IsSet(k)
        /\ made[j].ctx = i /\ made[k].ctx = i /\ j # k
        /\ GetMainContext(ctxs, i) # GetMainContext(ctxs, j)
        /\ GetMainContext(ctxs, i) # GetMainContext(ctxs, k)
        /\ GetMainContext(ctxs, j) # GetMainContext(ctxs, k)

(***************************************************************************)
(* Properties of the controller                                            *)
(***************************************************************************)

IsCreate(p) == loc[p].kind = "create"
IsUpdate(p) == loc[p].kind = "update"
LastStep(p) == trace[p][Len(trace[p])]
Statuses(p) == [i \in 1..Len(sent[p]) |-> sent[p][i].status]

C6_NothingOrdersSettingsAccess ==
    \A p \in Procs :
        /\ pc[p] = "i_store" => ENABLED InitStore(p)
        /\ pc[p] = "u_read" => ENABLED UpdateRead(p)
        /\ pc[p] = "c_enabled" => ENABLED CreateCheckEnabled(p)

\* a store of settingsData is half done, and a handler that read the
\* settings meanwhile holds a mix of the fields of two refreshes
C6_Witness ==
    \E p, q \in HandlerProcs :
        /\ p # q
        /\ pc[p] = "i_store"
        /\ loc[p].pending # SettingsFields
        /\ pc[q] = "u_respond"
        /\ loc[q].snap \notin (FetchedSettings \cup {ZeroSettings})

\* C7 (SpecConc): the status CreateUserHandler sends is decided by the
\* outcome: disabled 501; decode or validation failure 400, through an error
\* that wraps errBadRequest; InsertUser failure 500, through an error that
\* wraps errInternal; success 201 with the inserted user's ID; nothing else.
C7_StatusMapping ==
    \A p \in HandlerProcs :
        (IsCreate(p) /\ pc[p] = "done") =>
            /\ \A i \in 1..Len(sent[p]) :
                  sent[p][i].status \in {StatusNotImplemented, StatusBadRequest,
                                         StatusInternalServerError, StatusCreated}
            /\ LastStep(p) = "disabled" =>
                  sent[p] = <<Response(StatusNotImplemented, NoError)>>
            /\ LastStep(p) \in {"decode:fail", "validate:fail"} =>
                  /\ Is(loc[p].err, errBadRequest)
                  /\ sent[p] = <<Response(StatusBadRequest, loc[p].err)>>
            /\ LastStep(p) = "insert:fail" =>
                  /\ Is(loc[p].err, errInternal)
                  /\ sent[p] = <<Response(StatusInternalServerError, NoError)>>
            /\ LastStep(p) = "insert:ok" =>
                  /\ loc[p].err = NoError
                  /\ loc[p].resp.ID \in UserIDs
                  /\ sent[p] = <<Response(StatusCreated, [ID |-> loc[p].resp.ID])>>

\* one request was refused with 400 for its fields, another failed in
\* InsertUser with an error whose text names the input error, and got 500
C7_Witness ==
    \E p, q \in HandlerProcs :
        /\ IsCreate(p) /\ pc[p] = "done" /\ LastStep(p) = "validate:fail"
        /\ Statuses(p) = <<StatusBadRequest>>
        /\ IsCreate(q) /\ pc[q] = "done" /\ LastStep(q) = "insert:fail"
        /\ loc[q].err.msg = "failed to insert user. input error. internal error"
        /\ Statuses(q) = <<StatusInternalServerError>>

InsertSteps == {"insert:ok", "insert:fail"}

\* C8 (SpecConc): the steps of a request are, in this order, the enabled
\* check, decode, validate, insert, respond: InsertUser is called at most
\* once, and only as the fourth step after the three before it succeeded, the
\* validation having returned nil; the response comes last.
C8_InsertOnlyAfterValidation ==
    \A p \in HandlerProcs :
        LET t == trace[p]
        IN  /\ Cardinality({i \in 1..Len(t) : t[i] \in InsertSteps}) <= 1
            /\ \A i \in 1..Len(t) :
                  t[i] \in InsertSteps =>
                      /\ SubSeq(t, 1, i - 1) = <<"enabled", "decode:ok", "validate:ok">>
                      /\ loc[p].body.json
                      /\ loc[p].cur = loc[p].body.value
                      /\ validateCreateUserRequest(loc[p].cur) = NoError
            /\ (t # <<>> /\ LastStep(p) \in {"disabled", "decode:fail", "validate:fail"})
                  => \A i \in 1..Len(t) : t[i] \notin InsertSteps
            /\ (IsCreate(p) /\ sent[p] # <<>>) => pc[p] = "done"

\* one request stopped at the validation, another went through to InsertUser
C8_Witness ==
    \E p, q \in HandlerProcs :
        /\ pc[p] = "done"
        /\ trace[p] = <<"enabled", "decode:ok", "validate:fail">>
        /\ pc[q] = "done"
        /\ trace[q] = <<"enabled", "decode:ok", "validate:ok", "insert:ok">>

\* C10 (SpecConc): every error handleCreateUser returns wraps errBadRequest
\* or errInternal, so CreateUserHandler has sent exactly one response when
\* it returns, and none before.
C10_ExactlyOneResponse ==
    \A p \in HandlerProcs :
        IsCreate(p) =>
            /\ (pc[p] = "c_ret" /\ loc[p].err # NoError) =>
                  (Is(loc[p].err, errBadRequest) \/ Is(loc[p].err, errInternal))
            /\ pc[p] = "done" => Len(sent[p]) = 1
            /\ pc[p] # "done" => Len(sent[p]) = 0

\* a request whose handleCreateUser returned an error has returned, with one
\* response sent
C10_Witness ==
    \E p \in HandlerProcs :
        /\ IsCreate(p) /\ pc[p] = "done"
        /\ loc[p].err # NoError
        /\ Len(trace[p]) > 1
        /\ Len(sent[p]) = 1

(***************************************************************************)
(* validateCreateUserRequest, checked under SpecVal                        *)
(***************************************************************************)

\* the message the claim expects for a request: one per failing field, in the
\* order full name, address, city, state, zip code, joined by "; ", the state
\* failing when it does not have exactly 2 characters
ClaimedMessages(cur) ==
    (IF cur.FullName = "" THEN <<"full name is required">> ELSE <<>>)
    \o (IF cur.Address = "" THEN <<"address is required">> ELSE <<>>)
    \o (IF cur.City = "" THEN <<"city is required">> ELSE <<>>)
    \o (IF Len(cur.State) # 2
        THEN <<"state is required and must be 2 characters">> ELSE <<>>)
    \o (IF cur.ZipCode = 0 THEN <<"zip code is required">> ELSE <<>>)

\* C9: validateCreateUserRequest returns nil if and only if FullName, Address
\* and City are non-empty, State has exactly 2 characters and ZipCode is
\* non-zero; otherwise one error with one message per failing field (at most
\* 5), in the fixed order, joined by "; "; the input is not modified.
C9_NilIffAllFieldsValid ==
    vres # NotValidated =>
        LET msgs == ClaimedMessages(vcur)
        IN  /\ vres = NoError <=>
                  /\ vcur.FullName # "" /\ vcur.Address # "" /\ vcur.City # ""
                  /\ Len(vcur.State) = 2
                  /\ vcur.ZipCode # 0
            /\ Len(msgs) <= 5
            /\ vres # NoError => vres.msg = Join(msgs, "; ")

====
